---------------------------- MODULE Spec2Model ----------------------------
(***************************************************************************)
(* Model of the two Kinesis producers of the repository,                   *)
(* src/data_producer.py (fixed-batch producer) and src/json_producer.py    *)
(* (single-sample producer).  Both share the same provisioning code        *)
(* (connect_to_stream / wait_for_stream) and differ in the emission loop   *)
(* of main().                                                              *)
(*                                                                         *)
(* One process run is a walk of pc through                                 *)
(*   start -> (create) -> (wait1 -> wait2 <-> poll) -> build -> put ->     *)
(*   sleep -> build ...          or  -> returned  or  -> crashed           *)
(* The Kinesis backend is the environment: it owns the variable stream     *)
(* and decides the outcome of every describe_stream, create_stream and     *)
(* put_record call.                                                        *)
(***************************************************************************)
EXTENDS Integers, Sequences, FiniteSets

(* ------------------------------ bounds -------------------------------- *)
\* emission iterations explored per process run
MaxIter == 2
\* largest objects_per_message explored (data_producer, -opm)
MaxOpm == 2
\* largest period (milliseconds) explored; the smallest is -1
MaxPeriod == 1
\* process invocations explored (the script is run, ended, and run again)
MaxRuns == 2

(* ------------------------- program constants -------------------------- *)
\* create_stream(StreamName=stream_name, ShardCount=1)
ShardCount == 1
\* obj["msg_type"] = 3 in data_producer
DataMsgType == 3
\* obj["encoder_counter"] = i * 100
EncoderStep == 100

VARIABLES
  producer,      \* "data" (data_producer.py) or "json" (json_producer.py)
  args,          \* parsed command line: period_set, period (ms), objects_per_message
  stream,        \* backend: "ABSENT" or the StreamStatus of the named stream
  pc,            \* position of the process
  inTry,         \* wait_for_stream was called from inside connect_to_stream's try block
  status,        \* local variable status of wait_for_stream
  ret,           \* what connect_to_stream returned: "none", "True", "False", "raised"
  exc,           \* the exception that ended the process, "none" otherwise
  counter,       \* data_producer: counter
  n,             \* json_producer: n = [0, 0, 0], indexed here by msg_type 0..2
  objects,       \* the Samples of the record being sent (data: objects, json: <<obj>>)
  sleep_ms,      \* sleep_s of main, in milliseconds
  lastPut,       \* outcome of the put_record call of the current iteration
  \* ---- observations of the run (written, never read by the program) ----
  run,           \* number of the process invocation
  prevRun,       \* the previous invocation: first describe gave ACTIVE, create calls
  firstDescribe, \* outcome of the first describe_stream call of this run
  lastDescribe,  \* outcome of the most recent describe_stream call of this run
  lastExists,    \* whether the stream existed when that call was made
  describedAfterCreate, \* a describe_stream call was issued after create_stream
  creates,       \* create_stream calls issued in this run
  shards,        \* ShardCount argument of the last create_stream call (0: none)
  iter,          \* emission iterations started in this run
  puts,          \* put_record calls issued in this run
  fails,         \* put_record calls of this run that raised
  stamped,       \* every (msg_type, sequence) stamped into a Sample, in order
  createResult,  \* outcome of the create_stream call of this run ("none": no call)
  lastCall,      \* the most recent backend operation the process issued
  lastKey,       \* PartitionKey of the most recent put_record call
  slept,         \* time.sleep calls of the emission loop that completed
  lastSleep,     \* duration (ms) of the most recent of them
  prevObjects    \* data_producer: objects as they were in the previous send

vars == <<producer, args, stream, pc, inTry, status, ret, exc, counter, n,
          objects, sleep_ms, lastPut, run, prevRun, firstDescribe, lastDescribe,
          lastExists, describedAfterCreate, creates, shards, iter, puts, fails,
          stamped, createResult, lastCall, lastKey, slept, lastSleep, prevObjects>>

procVars == <<pc, inTry, status, ret, exc, counter, n, objects, sleep_ms, lastPut>>
obsVars == <<firstDescribe, lastDescribe, lastExists, describedAfterCreate,
             creates, shards, iter, puts, fails, stamped, createResult, lastCall,
             lastKey, slept, lastSleep, prevObjects>>

Statuses == {"CREATING", "ACTIVE", "UPDATING", "DELETING"}
Errors == {"ResourceNotFound", "Transient", "KeyError"}

(* --------------------------- the backend ------------------------------ *)
\* What one describe_stream call can produce: the stream's status, the
\* not-found error of an absent stream, a backend/network error, or a response
\* without the expected keys (the KeyError wait_for_stream guards against).
DescribeOutcomes(s) ==
  (IF s = "ABSENT" THEN {"ResourceNotFound"} ELSE {s}) \cup {"Transient", "KeyError"}

\* What one create_stream call can produce.
CreateOutcomes(s) ==
  (IF s = "ABSENT" THEN {"ok"} ELSE {"ResourceInUse"}) \cup {"Transient"}

\* What one put_record call can produce: only a usable stream accepts records,
\* and any call may fail (throttling, network).
PutOutcomes(s) ==
  (IF s \in {"ACTIVE", "UPDATING"} THEN {"ok"} ELSE {}) \cup {"failed"}

\* Lifecycle of the stream on the backend, driven by the service and by other
\* clients: absent -> creating -> active <-> updating, any -> deleting -> absent.
Successors(s) ==
  CASE s = "ABSENT"   -> {"CREATING"}
    [] s = "CREATING" -> {"ACTIVE", "DELETING"}
    [] s = "ACTIVE"   -> {"UPDATING", "DELETING"}
    [] s = "UPDATING" -> {"ACTIVE", "DELETING"}
    [] s = "DELETING" -> {"ABSENT"}


(* ------------------------- command line, setup ------------------------ *)
\* -p/--period is an optional int (None when omitted); -opm defaults to 1 and
\* exists in data_producer only; json_producer builds one Sample per record.
ArgSets(p) ==
  { [period_set |-> ps, period |-> per, objects_per_message |-> m] :
      ps \in BOOLEAN, per \in -1..MaxPeriod,
      m \in (IF p = "data" THEN 0..MaxOpm ELSE {1}) }

ValidArgs(p) == { a \in ArgSets(p) : a.period_set \/ a.period = 0 }

\* sleep_s of main, kept in milliseconds (the code divides by 1000, which keeps
\* the sign and the order).  data_producer clamps a negative period to 0,
\* json_producer does not.
SleepMs(p, a) ==
  IF p = "data"
  THEN IF ~a.period_set \/ a.period < 0 THEN 0 ELSE a.period
  ELSE IF ~a.period_set THEN 0 ELSE a.period

\* data_producer: the objects built once before the loop, objects[i] for
\* i = 0..m-1 at index i+1 (the random encoder/motor readings are left out).
InitialObjects(m) ==
  [ i \in 1..m |-> [msg_type |-> DataMsgType,
                    encoder_counter |-> (i - 1) * EncoderStep,
                    motor_counter |-> i - 1] ]

(* ---------------------------- provisioning ---------------------------- *)
\* Variant: the DELETING branch is missing.
IsDeleting_never(st) == FALSE

\* connect_to_stream: if status == "DELETING"
IsDeleting(st) == st = "DELETING"

\* Variant: every status that is not DELETING goes to wait_for_stream.
NeedsWait_always(st) == TRUE

\* Variant: no status goes to wait_for_stream.
NeedsWait_never(st) == FALSE

\* connect_to_stream: elif status != "ACTIVE"
NeedsWait(st) == st # "ACTIVE"

\* Variant: the polling loop is left after the first status.
KeepPolling_never(st) == FALSE

\* wait_for_stream: while status != 'ACTIVE'
KeepPolling(st) == st # "ACTIVE"

\* wait_for_stream: except KeyError: pass  (the only error the first loop retries)
RetriesDescribe(e) == e = "KeyError"

\* Variant: the second wait_for_stream is inside the try block too.
OnWaitError_always(t) == "create"

\* Where an exception leaving wait_for_stream goes: called from the try block it
\* lands in the bare except (create_stream), called from the except block it
\* leaves connect_to_stream and main.
OnWaitError(t) == IF t THEN "create" ELSE "crashed"

\* connect_to_stream returned True: main builds its loop state and enters the
\* emission loop.
ReturnTrue ==
  /\ ret' = "True"
  /\ pc' = "build"
  /\ counter' = 0
  /\ n' = [t \in 0..2 |-> 0]
  /\ objects' = IF producer = "data" THEN InitialObjects(args.objects_per_message)
                ELSE <<>>
  /\ sleep_ms' = SleepMs(producer, args)
  /\ UNCHANGED <<inTry, status, exc, lastPut>>

\* Variant: a failed startup call sends the process back to its first query.
Propagate_retry(e) ==
  /\ pc' = "start"
  /\ UNCHANGED <<ret, exc, inTry, status, counter, n, objects, sleep_ms, lastPut>>

\* An exception e leaves connect_to_stream and main: the process ends.
Propagate(e) ==
  /\ pc' = "crashed"
  /\ ret' = "raised"
  /\ exc' = e
  /\ UNCHANGED <<inTry, status, counter, n, objects, sleep_ms, lastPut>>

\* An exception raised by wait_for_stream.
WaitRaises(e) ==
  IF OnWaitError(inTry) = "create"
  THEN /\ pc' = "create"
       /\ UNCHANGED <<inTry, status, ret, exc, counter, n, objects, sleep_ms, lastPut>>
  ELSE Propagate(e)

\* The observation of one describe_stream call with outcome o.
Described(o) ==
  /\ firstDescribe' = IF firstDescribe = "none" THEN o ELSE firstDescribe
  /\ lastDescribe' = o
  /\ lastExists' = (stream # "ABSENT")
  /\ describedAfterCreate' = (creates > 0)
  /\ lastCall' = "describe_stream"
  /\ UNCHANGED <<creates, shards, iter, puts, fails, stamped, createResult,
                 lastKey, slept, lastSleep, prevObjects>>

\* connect_to_stream, try block: the first describe_stream and the branch on
\* its status.
ConnectDescribe ==
  /\ pc = "start"
  /\ \E o \in DescribeOutcomes(stream) :
       /\ Described(o)
       /\ IF o \in Errors
          THEN /\ pc' = "create"
               /\ UNCHANGED <<inTry, status, ret, exc, counter, n, objects,
                              sleep_ms, lastPut>>
          ELSE IF IsDeleting(o)
          THEN /\ pc' = "returned"
               /\ ret' = "False"
               /\ UNCHANGED <<inTry, status, exc, counter, n, objects,
                              sleep_ms, lastPut>>
          ELSE IF NeedsWait(o)
          THEN /\ pc' = "wait1"
               /\ inTry' = TRUE
               /\ UNCHANGED <<status, ret, exc, counter, n, objects,
                              sleep_ms, lastPut>>
          ELSE ReturnTrue
  /\ UNCHANGED <<producer, args, stream, run, prevRun>>

\* connect_to_stream, except block: create_stream with one shard, then
\* wait_for_stream; a failure of create_stream propagates.
CreateStream ==
  /\ pc = "create"
  /\ creates' = creates + 1
  /\ shards' = ShardCount
  /\ describedAfterCreate' = FALSE
  /\ lastCall' = "create_stream"
  /\ \E o \in CreateOutcomes(stream) :
       /\ createResult' = o
       /\ IF o = "ok"
          THEN /\ stream' = "CREATING"
               /\ pc' = "wait1"
               /\ inTry' = FALSE
               /\ UNCHANGED <<status, ret, exc, counter, n, objects, sleep_ms,
                              lastPut>>
          ELSE /\ stream' = stream
               /\ Propagate(o)
  /\ UNCHANGED <<producer, args, run, prevRun, firstDescribe, lastDescribe,
                 lastExists, iter, puts, fails, stamped, lastKey, slept,
                 lastSleep, prevObjects>>

\* wait_for_stream, first loop: describe_stream until a call gives a status;
\* a KeyError is retried, any other exception leaves the function.
WaitFirstDescribe ==
  /\ pc = "wait1"
  /\ \E o \in DescribeOutcomes(stream) :
       /\ Described(o)
       /\ IF o \in Errors
          THEN IF RetriesDescribe(o)
               THEN UNCHANGED procVars
               ELSE WaitRaises(o)
          ELSE /\ status' = o
               /\ pc' = "wait2"
               /\ UNCHANGED <<inTry, ret, exc, counter, n, objects, sleep_ms, lastPut>>
  /\ UNCHANGED <<producer, args, stream, run, prevRun>>

\* wait_for_stream, second loop: the test of the while.
WaitCheck ==
  /\ pc = "wait2"
  /\ IF KeepPolling(status)
     THEN /\ pc' = "poll"
          /\ UNCHANGED <<inTry, status, ret, exc, counter, n, objects, sleep_ms,
                         lastPut>>
     ELSE ReturnTrue
  /\ UNCHANGED <<producer, args, stream, run, prevRun>>
  /\ UNCHANGED obsVars

\* Variant: the polling loop queries again but does not assign status.
WaitPoll_stale ==
  /\ pc = "poll"
  /\ \E o \in DescribeOutcomes(stream) :
       /\ Described(o)
       /\ IF o \in Errors
          THEN WaitRaises(o)
          ELSE /\ pc' = "wait2"
               /\ UNCHANGED <<status, inTry, ret, exc, counter, n, objects,
                              sleep_ms, lastPut>>
  /\ UNCHANGED <<producer, args, stream, run, prevRun>>

\* wait_for_stream, second loop: sleep, then describe_stream again; here no
\* exception is caught.
WaitPoll ==
  /\ pc = "poll"
  /\ \E o \in DescribeOutcomes(stream) :
       /\ Described(o)
       /\ IF o \in Errors
          THEN WaitRaises(o)
          ELSE /\ status' = o
               /\ pc' = "wait2"
               /\ UNCHANGED <<inTry, ret, exc, counter, n, objects, sleep_ms, lastPut>>
  /\ UNCHANGED <<producer, args, stream, run, prevRun>>

(* ---------------------------- emission loop --------------------------- *)
\* Variant: the counter advances only after a delivered record.
NextCounter_onlyAfterSuccess(c) == IF lastPut = "failed" THEN c ELSE c + 1

\* Variant: the counter advances by two.
NextCounter_double(c) == c + 2

\* Variant: the counter is kept in one bit.
NextCounter_wrap(c) == (c + 1) % 2

\* counter += 1 (data_producer) and n[obj["msg_type"]] += 1 (json_producer)
NextCounter(c) == c + 1

\* Variant: the counter is incremented before it is stamped.
RECURSIVE StampObjects_incrementFirst(_, _, _, _)
StampObjects_incrementFirst(objs, c, i, m) ==
  IF i > m
  THEN [objects |-> objs, counter |-> c]
  ELSE StampObjects_incrementFirst([objs EXCEPT ![i].motor_counter = c + 1],
                                   c + 1, i + 1, m)

\* data_producer, the for loop of one iteration: objects[i]["motor_counter"] =
\* counter; counter += 1, for i = 0..m-1 (index i+1 here).  Gives the objects and
\* the counter after the loop.
RECURSIVE StampObjects(_, _, _, _)
StampObjects(objs, c, i, m) ==
  IF i > m
  THEN [objects |-> objs, counter |-> c]
  ELSE StampObjects([objs EXCEPT ![i].motor_counter = c], NextCounter(c), i + 1, m)

\* json_producer: r = random.randint(1, 501), both ends included; the draws
\* explored are the ends of the three ranges.
RDraws == {1, 400, 401, 500, 501}

\* json_producer: obj["msg_type"] = 0 if r < 401 else (1 if r < 501 else 2)
MsgType(r) == IF r < 401 THEN 0 ELSE (IF r < 501 THEN 1 ELSE 2)

\* json_producer: the draws u = random.random() explored, as k with u = k / 4000:
\* the least draw, one just above the middle, and the greatest.
UDraws == {0, 2001, 3999}

\* Variant: the int() of the integer-like value is missing.
Value_noInt(t, k) == IF t = 1 THEN (2 * k * 256) \div 4000 ELSE k - 2000

\* json_producer: obj["value"], in halves (the unit in which every value of
\* the draws explored is exact): float(int(random.random() * 256)) for
\* msg_type 1, random.random() * 2000 - 1000 otherwise.
Value(t, k) == IF t = 1 THEN 2 * ((k * 256) \div 4000) ELSE k - 2000

\* PartitionKey of put_record: "SergiRamis" in data_producer, "123" in json_producer.
PartitionKey(p) == IF p = "data" THEN "SergiRamis" ELSE "123"

\* Variant: the sleep is inside the try block, after put_record.
SleepsAfter_okOnly(o) == o = "ok"

\* time.sleep(sleep_s) follows the try / except: it is reached after a
\* delivered and after a failed put_record alike.
SleepsAfter(o) == TRUE

\* The (msg_type, sequence) pairs of the Samples of a record, in order.
Stamps(objs) ==
  [ i \in 1..Len(objs) |->
      [msg_type |-> objs[i].msg_type,
       seq |-> IF producer = "data" THEN objs[i].motor_counter ELSE objs[i].sequence] ]

\* One iteration of while True up to json.dumps: the record is built and the
\* counters advance, before and whatever the outcome of put_record.
Build ==
  /\ pc = "build"
  /\ iter < MaxIter
  /\ IF producer = "data"
     THEN LET res == StampObjects(objects, counter, 1, args.objects_per_message)
          IN /\ objects' = res.objects
             /\ counter' = res.counter
             /\ n' = n
     ELSE \E r \in RDraws, k \in UDraws :
            LET t == MsgType(r)
                nn == [n EXCEPT ![t] = NextCounter(n[t])]
            IN /\ n' = nn
               /\ objects' = << [msg_type |-> t, value |-> Value(t, k),
                                 sequence |-> nn[t]] >>
               /\ counter' = counter
  /\ stamped' = stamped \o Stamps(objects')
  /\ prevObjects' = IF producer = "data" /\ iter > 0 THEN objects ELSE prevObjects
  /\ iter' = iter + 1
  /\ pc' = "put"
  /\ UNCHANGED <<producer, args, stream, run, prevRun, inTry, status, ret, exc,
                 sleep_ms, lastPut, firstDescribe, lastDescribe, lastExists,
                 describedAfterCreate, creates, shards, puts, fails,
                 createResult, lastCall, lastKey, slept, lastSleep>>

\* Variant: a failed put_record sends the process back to connect_to_stream.
PutRecord_reconnect ==
  /\ pc = "put"
  /\ \E o \in PutOutcomes(stream) :
       /\ lastPut' = o
       /\ fails' = IF o = "failed" THEN fails + 1 ELSE fails
       /\ pc' = IF o = "failed" THEN "start" ELSE "sleep"
  /\ puts' = puts + 1
  /\ lastCall' = "put_record"
  /\ lastKey' = PartitionKey(producer)
  /\ UNCHANGED <<producer, args, stream, run, prevRun, inTry, status, ret, exc,
                 counter, n, objects, sleep_ms, firstDescribe, lastDescribe,
                 lastExists, describedAfterCreate, creates, shards, iter, stamped,
                 createResult, slept, lastSleep, prevObjects>>

\* put_record inside try / except Exception: a failure is printed and the
\* iteration goes on to the sleep.
PutRecord ==
  /\ pc = "put"
  /\ \E o \in PutOutcomes(stream) :
       /\ lastPut' = o
       /\ fails' = IF o = "failed" THEN fails + 1 ELSE fails
       /\ pc' = IF SleepsAfter(o) THEN "sleep" ELSE "build"
  /\ puts' = puts + 1
  /\ lastCall' = "put_record"
  /\ lastKey' = PartitionKey(producer)
  /\ UNCHANGED <<producer, args, stream, run, prevRun, inTry, status, ret, exc,
                 counter, n, objects, sleep_ms, firstDescribe, lastDescribe,
                 lastExists, describedAfterCreate, creates, shards, iter, stamped,
                 createResult, slept, lastSleep, prevObjects>>

\* time.sleep(sleep_s), outside the try: a negative duration raises ValueError,
\* which nothing catches.
Sleep ==
  /\ pc = "sleep"
  /\ IF sleep_ms < 0
     THEN /\ pc' = "crashed"
          /\ exc' = "ValueError"
          /\ UNCHANGED <<slept, lastSleep>>
     ELSE /\ pc' = "build"
          /\ exc' = exc
          /\ slept' = slept + 1
          /\ lastSleep' = sleep_ms
  /\ UNCHANGED <<producer, args, stream, run, prevRun, inTry, status, ret,
                 counter, n, objects, sleep_ms, lastPut>>
  /\ UNCHANGED <<firstDescribe, lastDescribe, lastExists, describedAfterCreate,
                 creates, shards, iter, puts, fails, stamped, createResult,
                 lastCall, lastKey, prevObjects>>

(* ------------------------ environment, restart ------------------------ *)
\* The backend moves the stream through its lifecycle on its own.
BackendChanges ==
  /\ stream' \in Successors(stream)
  /\ UNCHANGED <<producer, args, run, prevRun>>
  /\ UNCHANGED procVars
  /\ UNCHANGED obsVars

\* The state of a process that has just entered main.
FreshProcess ==
  /\ pc = "start"
  /\ inTry = FALSE
  /\ status = "none"
  /\ ret = "none"
  /\ exc = "none"
  /\ counter = 0
  /\ n = [t \in 0..2 |-> 0]
  /\ objects = <<>>
  /\ sleep_ms = 0
  /\ lastPut = "none"
  /\ firstDescribe = "none"
  /\ lastDescribe = "none"
  /\ lastExists = FALSE
  /\ describedAfterCreate = FALSE
  /\ creates = 0
  /\ shards = 0
  /\ iter = 0
  /\ puts = 0
  /\ fails = 0
  /\ stamped = <<>>
  /\ createResult = "none"
  /\ lastCall = "none"
  /\ lastKey = "none"
  /\ slept = 0
  /\ lastSleep = 0
  /\ prevObjects = <<>>

\* The script is ended (it returned, crashed or was stopped by the operator)
\* and invoked again with the same command line: nothing of the process
\* survives, the stream on the backend does.
Restart ==
  /\ run < MaxRuns
  /\ firstDescribe # "none"
  /\ run' = run + 1
  /\ prevRun' = [firstActive |-> (firstDescribe = "ACTIVE"), creates |-> creates]
  /\ pc' = "start"
  /\ inTry' = FALSE
  /\ status' = "none"
  /\ ret' = "none"
  /\ exc' = "none"
  /\ counter' = 0
  /\ n' = [t \in 0..2 |-> 0]
  /\ objects' = <<>>
  /\ sleep_ms' = 0
  /\ lastPut' = "none"
  /\ firstDescribe' = "none"
  /\ lastDescribe' = "none"
  /\ lastExists' = FALSE
  /\ describedAfterCreate' = FALSE
  /\ creates' = 0
  /\ shards' = 0
  /\ iter' = 0
  /\ puts' = 0
  /\ fails' = 0
  /\ stamped' = <<>>
  /\ createResult' = "none"
  /\ lastCall' = "none"
  /\ lastKey' = "none"
  /\ slept' = 0
  /\ lastSleep' = 0
  /\ prevObjects' = <<>>
  /\ UNCHANGED <<producer, args, stream>>

Init ==
  /\ producer \in {"data", "json"}
  /\ args \in ValidArgs(producer)
  /\ stream \in {"ABSENT"} \cup Statuses
  /\ run = 1
  /\ prevRun = [firstActive |-> FALSE, creates |-> 0]
  /\ FreshProcess

Next ==
  \/ ConnectDescribe
  \/ CreateStream
  \/ WaitFirstDescribe
  \/ WaitCheck
  \/ WaitPoll
  \/ Build
  \/ PutRecord
  \/ Sleep
  \/ BackendChanges
  \/ Restart

Spec == Init /\ [][Next]_vars

(* ------------------- one run against a backend that settles ----------- *)
\* Every describe_stream call answers (with a status, or with not-found for an
\* absent stream) and create_stream succeeds.
CallsSucceed ==
  /\ lastDescribe \notin {"Transient", "KeyError"}
  /\ createResult \in {"none", "ok"}

\* The stream becomes ACTIVE and nothing moves it away again.
BackendSettles ==
  /\ stream \in {"CREATING", "UPDATING"}
  /\ stream' = "ACTIVE"
  /\ BackendChanges

\* A step of the process in which the backend call, if any, succeeds.
ProcessStep ==
  /\ \/ ConnectDescribe
     \/ CreateStream
     \/ WaitFirstDescribe
     \/ WaitCheck
     \/ WaitPoll
     \/ Build
     \/ PutRecord
     \/ Sleep
  /\ CallsSucceed'

LiveInit ==
  /\ Init
  /\ stream # "DELETING"

LiveNext ==
  \/ ConnectDescribe /\ CallsSucceed'
  \/ CreateStream /\ CallsSucceed'
  \/ WaitFirstDescribe /\ CallsSucceed'
  \/ WaitCheck
  \/ WaitPoll /\ CallsSucceed'
  \/ Build
  \/ PutRecord
  \/ Sleep
  \/ BackendSettles

\* The process is a single thread that keeps running (every sleep ends), and
\* the backend finishes creating or updating the stream.
LiveSpec ==
  /\ LiveInit
  /\ [][LiveNext]_vars
  /\ WF_vars(ProcessStep)
  /\ WF_vars(BackendSettles)

(* ------------------------------ properties ---------------------------- *)
InProvisioning == pc \in {"start", "create", "wait1", "wait2", "poll"}
InEmission == pc \in {"build", "put", "sleep"}

\* C1: in both producers an iteration whose put_record raised goes on to the
\* sleep and from the sleep to the next iteration; within one process run a
\* publish failure is never followed by the end of the loop.
C1_PublishFailureKeepsLooping ==
  [][ run' = run =>
        /\ (pc = "put" => pc' \in {"put", "sleep"})
        /\ (pc = "sleep" /\ lastPut = "failed" => pc' \in {"sleep", "build"}) ]_vars

\* C2: when the first describe_stream reports DELETING, connect_to_stream
\* returns False, main has returned, and no create_stream and no put_record
\* call was issued.
C2_DeletingIsTerminal ==
  firstDescribe = "DELETING" =>
    /\ pc = "returned"
    /\ ret = "False"
    /\ creates = 0
    /\ puts = 0
    /\ iter = 0

C2_Witness ==
  /\ firstDescribe = "DELETING"
  /\ pc = "returned"
  /\ ret = "False"

\* C3: when the first describe_stream fails because the stream is absent,
\* exactly one create_stream is issued, with one shard, the process polls while
\* the describes after the create report a status other than ACTIVE, and True is
\* returned only after a describe issued after the create reported ACTIVE.
C3_AbsentCreatesOnceThenWaits ==
  firstDescribe = "ResourceNotFound" =>
    /\ creates = (IF pc = "create" THEN 0 ELSE 1)
    /\ (creates = 1 => shards = 1)
    /\ (describedAfterCreate /\ lastDescribe \in Statuses \ {"ACTIVE"}
          => pc \in {"wait2", "poll"})
    /\ (ret = "True" => describedAfterCreate /\ lastDescribe = "ACTIVE")
    /\ (InEmission => ret = "True")

C3_Witness ==
  /\ firstDescribe = "ResourceNotFound"
  /\ ret = "True"
  /\ creates = 1
  /\ puts > 0

\* C4: when the first describe_stream reports ACTIVE, connect_to_stream has
\* returned True with no create_stream call; two invocations in sequence that
\* both find the stream ACTIVE issue no create_stream call between them.
C4_ActiveReturnsReadyWithoutCreate ==
  /\ firstDescribe = "ACTIVE" =>
       /\ ret = "True"
       /\ creates = 0
       /\ ~InProvisioning
       /\ pc # "returned"
  /\ prevRun.firstActive => prevRun.creates = 0
  /\ prevRun.firstActive /\ firstDescribe = "ACTIVE" => prevRun.creates + creates = 0

C4_Witness ==
  /\ run = 2
  /\ prevRun.firstActive
  /\ firstDescribe = "ACTIVE"
  /\ ret = "True"

\* C5: one process run issues at most one create_stream call, whatever the
\* backend answers to describe_stream and create_stream.
C5_AtMostOneCreate == creates <= 1

\* A run whose wait inside the try block failed, which then created the stream,
\* and whose second wait failed too: the process ends, it does not create again.
C5_Witness ==
  /\ firstDescribe \in {"CREATING", "UPDATING"}
  /\ creates = 1
  /\ describedAfterCreate
  /\ lastDescribe \in Errors
  /\ pc = "crashed"

\* C6: whenever the emission loop runs or has run, connect_to_stream returned
\* True and the most recent describe_stream call of the process reported ACTIVE.
C6_EmissionOnlyAfterActive ==
  (InEmission \/ iter > 0 \/ puts > 0) =>
    /\ ret = "True"
    /\ lastDescribe = "ACTIVE"

C6_Witness ==
  /\ firstDescribe = "CREATING"
  /\ puts > 0

\* The counters of json_producer taken together.
SumN == n[0] + n[1] + n[2]

StrictlyIncreasingPerType ==
  \A i, j \in 1..Len(stamped) :
    (i < j /\ stamped[i].msg_type = stamped[j].msg_type)
      => stamped[i].seq < stamped[j].seq

\* C8: for the lifetime of a process the sequence stamped into successive
\* Samples of one message type is strictly greater than the one before, and no
\* counter ever decreases within a run.
C8_SequenceStrictlyIncreasing ==
  /\ []StrictlyIncreasingPerType
  /\ [][ run' = run =>
           /\ counter' >= counter
           /\ \A t \in 0..2 : n'[t] >= n[t] ]_vars

C8_Witness ==
  /\ fails > 0
  /\ \E i, j \in 1..Len(stamped) :
       /\ i < j
       /\ stamped[i].msg_type = stamped[j].msg_type
       /\ stamped[i].seq < stamped[j].seq

\* C9: a describe_stream call of the provisioner that failed with a transient
\* backend error while the stream existed is followed by another query, not by
\* a create_stream call and not by the end of the process.
C9_TransientLookupIsRequeried ==
  [][ (lastDescribe = "Transient" /\ lastExists /\ InProvisioning /\ run' = run)
        => (creates' = creates /\ pc' # "crashed") ]_vars

\* C10: once a describe_stream call of the provisioner has reported DELETING,
\* provisioning has ended with the terminal outcome and nothing was emitted.
C10_DeletingSeenEndsProvisioning ==
  lastDescribe = "DELETING" =>
    /\ pc = "returned"
    /\ ret = "False"
    /\ puts = 0

\* C11: when every describe_stream call answers, create_stream succeeds and the
\* stream becomes ACTIVE and stays so, connect_to_stream eventually returns True
\* and the emission loop starts, from an absent stream (after the create) as
\* from a CREATING or UPDATING one.
C11_ProvisioningTerminates == <>(ret = "True" /\ iter > 0)

\* A run that found no stream, created it, and reached the emission loop.
C11_Witness ==
  /\ firstDescribe = "ResourceNotFound"
  /\ creates = 1
  /\ status = "ACTIVE"
  /\ ret = "True"
  /\ iter > 0

\* C12: every emission iteration makes exactly one put_record call, with the
\* producer's fixed partition key, and exactly one sleep lies between two
\* consecutive put_record calls, after a failed call as after a delivered one;
\* a completed sleep lasts the configured period, 0 when the period is omitted
\* or 0.
C12_OnePutOneSleepPerIteration ==
  ret = "True" =>
    /\ puts = (IF pc = "put" THEN iter - 1 ELSE iter)
    /\ slept = (IF pc \in {"sleep", "crashed"} THEN puts - 1 ELSE puts)
    /\ (puts > 0 => lastKey = (IF producer = "data" THEN "SergiRamis" ELSE "123"))
    /\ (slept > 0 => lastSleep = sleep_ms /\ lastSleep >= 0)
    /\ (~args.period_set \/ args.period = 0 => sleep_ms = 0 /\ lastSleep = 0)
    /\ (args.period_set /\ args.period > 0 => sleep_ms = args.period)

\* Two put_record calls, one of them failed, with a sleep of the period between.
C12_Witness ==
  /\ args.period_set
  /\ args.period > 0
  /\ puts = 2
  /\ fails = 1
  /\ lastPut = "ok"
  /\ slept = 1
  /\ lastSleep = args.period

\* C13: when the first describe_stream fails and the create_stream that follows
\* fails too, the exception of create_stream ends the process: neither call was
\* issued a second time, wait_for_stream was never entered and nothing was put.
C13_StartupFailurePropagates ==
  (firstDescribe \in Errors /\ createResult \in {"Transient", "ResourceInUse"}) =>
    /\ pc = "crashed"
    /\ ret = "raised"
    /\ exc = createResult
    /\ creates = 1
    /\ lastCall = "create_stream"
    /\ ~describedAfterCreate
    /\ ~inTry
    /\ status = "none"
    /\ puts = 0
    /\ iter = 0

C13_Witness ==
  /\ firstDescribe = "Transient"
  /\ createResult = "Transient"
  /\ exc = "Transient"
  /\ pc = "crashed"

\* C14: in data_producer, from the second send on, every Sample of the batch
\* carries a motor_counter and an encoder_counter greater than the ones it
\* carried in the previous send, and the batch keeps its size.
C14_BatchRestampedEverySend ==
  (producer = "data" /\ iter >= 2) =>
    /\ Len(objects) = args.objects_per_message
    /\ Len(prevObjects) = Len(objects)
    /\ \A i \in 1..Len(objects) :
         /\ objects[i].motor_counter > prevObjects[i].motor_counter
         /\ objects[i].encoder_counter > prevObjects[i].encoder_counter

\* C15: in json_producer msg_type is 0 for the draws 1..400, 1 for 401..500 and
\* 2 otherwise; a record of msg_type 1 carries a whole value in [0, 255], any
\* other record a value in [-1000, 1000).  Values are in halves.
C15_RangeContract ==
  /\ \A r \in RDraws :
       MsgType(r) = (IF r \in 1..400 THEN 0 ELSE IF r \in 401..500 THEN 1 ELSE 2)
  /\ producer = "json" =>
       \A i \in 1..Len(objects) :
         /\ objects[i].msg_type \in {0, 1, 2}
         /\ objects[i].msg_type = 1 =>
              /\ objects[i].value % 2 = 0
              /\ objects[i].value >= 0
              /\ objects[i].value <= 2 * 255
         /\ objects[i].msg_type # 1 =>
              /\ objects[i].value >= -(2 * 1000)
              /\ objects[i].value < 2 * 1000

\* A record of the integer-like type with the greatest value, 255.
C15_Witness ==
  /\ producer = "json"
  /\ pc = "sleep"
  /\ objects[1].msg_type = 1
  /\ objects[1].value = 2 * 255

\* C16: a run whose first describe_stream reported a status other than ACTIVE
\* and DELETING never issues create_stream and never ends with an exception.
C16_NotYetActiveNeverCreates ==
  firstDescribe \in {"CREATING", "UPDATING"} =>
    /\ creates = 0
    /\ pc # "crashed"

\* C17: once connect_to_stream has returned True the process issues put_record
\* and nothing else: no describe_stream, no create_stream, and it never goes
\* back to provisioning, also after failed put_record calls.
C17_OnlyPutsDuringEmission ==
  /\ [](puts > 0 => lastCall = "put_record")
  /\ [][ (ret = "True" /\ run' = run) =>
           /\ lastCall' \in {lastCall, "put_record"}
           /\ pc' \in {"build", "put", "sleep", "crashed"}
           /\ UNCHANGED <<creates, createResult, firstDescribe, lastDescribe,
                          lastExists, describedAfterCreate, ret>> ]_vars

\* The stream is gone in the middle of the run and a put_record failed: the
\* process went on to the next put_record.
C17_Witness ==
  /\ stream = "ABSENT"
  /\ puts = 2
  /\ fails > 0
  /\ lastCall = "put_record"
  /\ creates = 0

\* C18: for every period the sleep duration of the emission loop is
\* non-negative, 0 when the period is omitted or negative and the period
\* otherwise, and the sleep never raises.
C18_SleepNeverNegative ==
  ret = "True" =>
    /\ sleep_ms >= 0
    /\ sleep_ms = (IF ~args.period_set \/ args.period < 0 THEN 0 ELSE args.period)
    /\ exc # "ValueError"

\* Number of Samples of msg_type t among the first i stamped.
TypeCount(t, i) == Cardinality({ j \in 1..i : stamped[j].msg_type = t })

\* C19: in json_producer after k iterations the three counters sum to k, each
\* counter equals the number of records of its type built so far, and the
\* sequence of every record equals the number of records of its type built up
\* to and including it.
C19_SequenceCountsRecordsOfType ==
  producer = "json" =>
    /\ SumN = iter
    /\ Len(stamped) = iter
    /\ \A t \in 0..2 : n[t] = TypeCount(t, Len(stamped))
    /\ \A i \in 1..Len(stamped) :
         /\ stamped[i].msg_type \in 0..2
         /\ stamped[i].seq = TypeCount(stamped[i].msg_type, i)
    /\ (pc \in {"put", "sleep"} => objects[1].sequence = stamped[Len(stamped)].seq)

\* Two records of one type, the first of them not delivered.
C19_Witness ==
  /\ producer = "json"
  /\ iter = 2
  /\ fails > 0
  /\ stamped[1].msg_type = 2
  /\ stamped[2].msg_type = 2
  /\ n[2] = 2
  /\ objects[1].sequence = 2

\* C20: in data_producer with m = objects_per_message >= 1 the record of the
\* k-th iteration (k from 0) carries motor_counter k*m + i in its i-th Sample
\* (i from 0), the counter is (k+1)*m after it, and the motor_counter values
\* stamped so far are 0, 1, 2, ... without a gap.
C20_MotorCounterConsecutive ==
  (producer = "data" /\ args.objects_per_message >= 1 /\ ret = "True") =>
    /\ counter = iter * args.objects_per_message
    /\ Len(objects) = args.objects_per_message
    /\ iter >= 1 =>
         \A i \in 1..args.objects_per_message :
           objects[i].motor_counter = (iter - 1) * args.objects_per_message + (i - 1)
    /\ Len(stamped) = iter * args.objects_per_message
    /\ \A j \in 1..Len(stamped) : stamped[j].seq = j - 1

C20_Witness ==
  /\ producer = "data"
  /\ args.objects_per_message = 2
  /\ iter = 2
  /\ fails > 0
  /\ objects[1].motor_counter = 2
  /\ objects[2].motor_counter = 3
  /\ counter = 4

=============================================================================
